---- MODULE Spec2Model ----
(***************************************************************************)
(* Browser-side client of the PhotoShare REST API.                         *)
(*                                                                         *)
(* One browser tab is modelled.  A page script is loaded (Load* actions:   *)
(* the top-level statements of the script, up to its first suspension),    *)
(* then every further action is one browser task: the arrival of the       *)
(* response to one pending fetch together with the whole chain of          *)
(* continuations it resumes, up to the next fetch or the end of the        *)
(* handler; or one user event (submit, click) up to its first fetch.       *)
(* Assigning window.location only REQUESTS a navigation: the script keeps  *)
(* running, and the tab is replaced by another page at some later task     *)
(* (any Load* action).  The backend is external: the status and body of    *)
(* every response are inputs drawn from small sets.                        *)
(***************************************************************************)
EXTENDS Integers, Sequences, FiniteSets, TLC

VARIABLES
    localStorage,   \* [accessToken, refreshToken]: the persisted client state
    page,           \* the page script running in the tab
    token,          \* the script's `const token`, read once at load
    photo_id,       \* the script's `const photo_id` (URL query parameter), 0 if none
    pending,        \* the fetches awaiting a response, with their continuation
    dom,            \* content of the containers the scripts write to
    step,           \* effects of the last task, in program order
    events,         \* user events handled since the page was loaded
    got401          \* a 401 response was received since the page was loaded

vars == <<localStorage, page, token, photo_id, pending, dom, step, events, got401>>

----------------------------------------------------------------------------
(* Bounds of the model *)

\* longest photo list a list response carries
MaxPhotos == 2
\* user events (submit, click) handled per page load
MaxEvents == 2

----------------------------------------------------------------------------
(* Values *)

Null == "null"

AccessTokens == {"a1"}
RefreshTokens == {"r1"}

\* what local storage can hold when a tab is opened: it is persistent
\* per-origin state that outlives every page script
Storages == [accessToken : AccessTokens \cup {Null},
             refreshToken : RefreshTokens \cup {Null}]

LoginUrl == "/templates/login.html"

GuardedPages == {"images_old", "images", "image", "image_old", "add_image",
                 "user_profile", "rating"}
OpenPages == {"login", "signup", "signup_old"}

\* !token : null and the empty string are falsy
Falsy(t) == t = Null \/ t = ""

----------------------------------------------------------------------------
(* Effects of a task *)

EV(e, a, n, s) == [e |-> e, a |-> a, n |-> n, s |-> s, m |-> <<>>]

\* fetch(url, {headers: Authorization: Bearer <auth>}) for accessor acc, argument n
Fetch(acc, n, auth) == EV("fetch", acc, n, auth)
\* window.location = url  /  window.location.href = url
Nav(url, msg) == [EV("nav", url, 0, "") EXCEPT !.m = msg]
\* a write to container c (innerHTML, textContent, appendChild, className)
Dom(c) == EV("dom", c, 0, "")
\* localStorage.setItem(key, val)
SetItem(key, val) == EV("set", key, 0, val)
\* the response of status st to accessor acc arrived
Resp(acc, st) == EV("resp", acc, st, "")
\* accessor acc returned: n = 1 with data, n = 0 with undefined
Ret(acc, n) == EV("ret", acc, n, "")
\* an uncaught TypeError ended the handler
Throw(where) == EV("throw", where, 0, "")
\* the page was loaded with this local storage
Loaded(p, st) == EV("load", p, 0, st.accessToken)
\* the page was loaded with this local storage and this `message` parameter
LoadedWith(p, st, msg) == [Loaded(p, st) EXCEPT !.m = msg]

----------------------------------------------------------------------------
(* Inputs: URL query, response statuses and bodies *)

\* the `message` query parameter as a sequence of characters; <<>> when the
\* parameter is absent or empty (both are falsy in `if (message)`)
Messages == {<<>>, <<"a">>, <<"a", "\n", "b">>}

\* statuses a GET accessor can be answered with (404: any status that is
\* neither 200 nor 401)
Statuses == {200, 401, 404}

\* rating of a photo in tenths of a star; null until the first vote
RatingNull == -1
\* the field is missing from the record
RatingUndefined == -2

\* photo records of a response body: user_id 0 is a missing (falsy) owner
Photos == { [id |-> 1, user_id |-> 7, rating |-> RatingNull],
            [id |-> 2, user_id |-> 0, rating |-> 46] }

\* the `id` query parameter of the photo pages
PhotoIds == {42}

RECURSIVE SeqsUpTo(_, _)
SeqsUpTo(S, n) ==
    IF n = 0 THEN {<<>>}
    ELSE LET shorter == SeqsUpTo(S, n - 1)
         IN  shorter \cup {Append(q, x) : q \in {t \in shorter : Len(t) = n - 1}, x \in S}

\* JSON bodies of a photo list response
PhotoLists == SeqsUpTo(Photos, MaxPhotos)

\* user records of a response body, by id; 0 stands for `undefined`
NoUser == 0
Users == {7}

\* tag lists of a response body
TagLists == {<<>>, <<"t1">>}
NoTags == <<"undefined">>

----------------------------------------------------------------------------
(* Renderer pieces *)

\* Math.round(rating) as the bound of the star loop: null converts to 0,
\* undefined to NaN (the loop condition i < NaN is false); halves round up
Round(rating) ==
    IF rating = RatingNull \/ rating = RatingUndefined THEN 0
    ELSE (rating + 5) \div 10

\* number of star glyphs appended by `for (i = 0; i < Math.round(rating); i++)`
Stars(rating) == IF Round(rating) > 0 THEN Round(rating) ELSE 0

\* the text interpolated after "Rating: " by the renderers that test
\* `rating === null`
Unrated(rating) == IF rating = RatingNull THEN " unrated" ELSE ""

\* the text interpolated after "Rating: " by the older images page:
\* `Rating: ${rating}`
RatingText(rating) ==
    IF rating = RatingNull THEN "null"
    ELSE IF rating = RatingUndefined THEN "undefined"
    ELSE ToString(rating)

\* `${user?.username}` in a template literal
UserName(user) == IF user = NoUser THEN "undefined" ELSE "u" \o ToString(user)

\* textContent = user?.username : assigning undefined leaves the text empty
UserNameText(user) == IF user = NoUser THEN "" ELSE "u" \o ToString(user)

\* the card a photo renderer appends for one photo
Card(image, author, label, tags) ==
    [id |-> image.id, author |-> author, rating |-> image.rating,
     stars |-> Stars(image.rating), label |-> label, tags |-> tags]

\* the tag chips: `if (tags) { for (const tag of tags) ... }`
Chips(tags) == IF tags = NoTags THEN <<>> ELSE tags

\* containers of a freshly loaded document
FreshDom == [banner |-> <<>>, images |-> <<>>, image |-> <<>>, comments |-> <<>>,
             aboutUser |-> <<>>, userImages |-> <<>>, msgText |-> "",
             msgClass |-> "", msgColor |-> "", error |-> "", stars |-> 0]

\* the session guard at the top of a page script:
\* if (!token) { window.location.href = "/templates/login.html"; }
Guard(t) == IF Falsy(t) THEN <<Nav(LoginUrl, <<>>)>> ELSE <<>>

\* the guard of the imported module tag.js, evaluated before the importing script
TagGuard(st) == Guard(st.accessToken)

\* a pending fetch: the accessor awaiting it and the suspended caller's context
Req(task, acc, n, rest, user) ==
    [task |-> task, acc |-> acc, n |-> n, rest |-> rest, user |-> user]

\* the message banner of the images pages: one paragraph holding the message
Banner(msg) == IF msg # <<>> THEN <<msg>> ELSE <<>>
BannerLog(msg) == IF msg # <<>> THEN <<Dom("banner")>> ELSE <<>>

\* an accessor that requests the login page on every status but 200
AccessorRedirectingAlways(acc, st, has401) ==
    <<Resp(acc, st)>>
    \o (IF st # 200 /\ has401 THEN <<Nav(LoginUrl, <<>>)>> ELSE <<>>)
    \o <<Ret(acc, IF st = 200 THEN 1 ELSE 0)>>

\* what a status-checking accessor does with a response: with a 401 branch
\* it requests the login page; it returns data on 200 only
Accessor(acc, st, has401) ==
    <<Resp(acc, st)>>
    \o (IF st = 401 /\ has401 THEN <<Nav(LoginUrl, <<>>)>> ELSE <<>>)
    \o <<Ret(acc, IF st = 200 THEN 1 ELSE 0)>>

\* the ids of the photos of a list, in list order
Ids(list) == [i \in DOMAIN list |-> list[i].id]

\* the response to a photo list request, with the ids its body lists
ListResp(acc, st, result) == [Resp(acc, st) EXCEPT !.m = Ids(result)]

----------------------------------------------------------------------------
(* Images page (home): unnamed/part_000, second script *)

\* a list loop that never starts a lookup
ImagesNextStalling(rest, t) == [step |-> <<>>, pending |-> {}]

\* a list loop that starts the tag lookup of every photo at once
ImagesNextFanOut(rest, t) ==
    IF rest = <<>> THEN [step |-> <<>>, pending |-> {}]
    ELSE [step |-> [i \in DOMAIN rest |-> Fetch("getTags", rest[i].id, t)],
          pending |-> {Req("getImages", "getTags", 0,
                           SubSeq(rest, i, Len(rest)), NoUser) : i \in DOMAIN rest}]

\* the list loop of getImages from the head of `rest`, up to its next await:
\* const user = image?.user_id ? await getUserById(image?.user_id) : null;
\* ... const tags = await getTags(image.id)
ImagesNext(rest, t) ==
    IF rest = <<>> THEN [step |-> <<>>, pending |-> {}]
    ELSE IF Head(rest).user_id # 0
         THEN [step |-> <<Fetch("getUserById", Head(rest).user_id, t)>>,
               pending |-> {Req("getImages", "getUserById", 0, rest, NoUser)}]
         ELSE [step |-> <<Fetch("getTags", Head(rest).id, t)>>,
               pending |-> {Req("getImages", "getTags", 0, rest, NoUser)}]

\* top-level statements of the images page
LoadImages ==
    \E msg \in Messages :
        LET t == localStorage.accessToken IN
        /\ page' = "images"
        /\ token' = t
        /\ photo_id' = 0
        /\ dom' = [FreshDom EXCEPT !.banner = Banner(msg)]
        /\ step' = <<LoadedWith("images", localStorage, msg)>> \o TagGuard(localStorage)
                  \o Guard(t) \o BannerLog(msg) \o <<Fetch("getImages", 0, t)>>
        /\ pending' = {Req("getImages", "getImages", 0, <<>>, NoUser)}
        /\ events' = 0
        /\ got401' = FALSE
        /\ UNCHANGED localStorage

\* getImages resumes with the response to GET /api/photos/all/?limit=50
getImages ==
    \E r \in pending, st \in Statuses, result \in PhotoLists :
        /\ page = "images" /\ r.acc = "getImages"
        /\ st # 200 => result = <<>>
        /\ LET next == ImagesNext(result, token) IN
           /\ step' = <<ListResp("getImages", st, result)>>
                     \o (IF st = 200 THEN <<Dom("images")>> \o next.step ELSE <<>>)
                     \o (IF st = 401 THEN <<Nav(LoginUrl, <<>>)>> ELSE <<>>)
           /\ pending' = (pending \ {r}) \cup (IF st = 200 THEN next.pending ELSE {})
           /\ dom' = IF st = 200 THEN [dom EXCEPT !.images = <<>>] ELSE dom
        /\ got401' = (got401 \/ st = 401)
        /\ UNCHANGED <<localStorage, page, token, photo_id, events>>

\* getUserById resumes inside the list loop; the loop goes on to getTags
getUserById ==
    \E r \in pending, st \in Statuses, user \in Users :
        /\ page = "images" /\ r.acc = "getUserById"
        /\ step' = Accessor("getUserById", st, TRUE)
                  \o <<Fetch("getTags", Head(r.rest).id, token)>>
        /\ pending' = (pending \ {r})
              \cup {Req("getImages", "getTags", 0, r.rest,
                        IF st = 200 THEN user ELSE NoUser)}
        /\ got401' = (got401 \/ st = 401)
        /\ UNCHANGED <<localStorage, page, token, photo_id, dom, events>>

\* getTags resumes inside the list loop: the card is appended and the loop
\* moves to the next photo
getTags ==
    \E r \in pending, st \in Statuses, tags \in TagLists :
        /\ page = "images" /\ r.acc = "getTags"
        /\ st # 200 => tags = <<>>
        /\ LET image == Head(r.rest)
               got == IF st = 200 THEN tags ELSE NoTags
               next == ImagesNext(Tail(r.rest), token)
           IN  /\ step' = Accessor("getTags", st, TRUE)
                         \o <<Dom("images")>> \o next.step
               /\ pending' = (pending \ {r}) \cup next.pending
               /\ dom' = [dom EXCEPT !.images =
                            Append(@, Card(image, UserName(r.user), Unrated(image.rating), Chips(got)))]
        /\ got401' = (got401 \/ st = 401)
        /\ UNCHANGED <<localStorage, page, token, photo_id, events>>

----------------------------------------------------------------------------
(* Older images page: unnamed/part_000, first script *)

\* the list loop of the older getImages from the head of `rest`, up to its
\* next await: photos without an owner are rendered at once (the tags come
\* with the photo record), a photo with an owner suspends on getUserById
RECURSIVE ImagesOldNext(_, _)
ImagesOldNext(rest, t) ==
    IF rest = <<>> THEN [step |-> <<>>, pending |-> {}, cards |-> <<>>]
    ELSE IF Head(rest).user_id # 0
         THEN [step |-> <<Fetch("getUserById", Head(rest).user_id, t)>>,
               pending |-> {Req("getImages", "getUserById", 0, rest, NoUser)},
               cards |-> <<>>]
         ELSE LET next == ImagesOldNext(Tail(rest), t)
                  image == Head(rest)
              IN  [step |-> <<Dom("images")>> \o next.step,
                   pending |-> next.pending,
                   cards |-> <<Card(image, UserNameText(NoUser),
                                    RatingText(image.rating), <<>>)>> \o next.cards]

\* top-level statements of the older images page: the token is read from
\* the refreshToken key
LoadImagesOld ==
    \E msg \in Messages :
        LET t == localStorage.refreshToken IN
        /\ page' = "images_old"
        /\ token' = t
        /\ photo_id' = 0
        /\ dom' = [FreshDom EXCEPT !.banner = Banner(msg)]
        /\ step' = <<LoadedWith("images_old", localStorage, msg)>>
                  \o Guard(t) \o BannerLog(msg) \o <<Fetch("getImages", 0, t)>>
        /\ pending' = {Req("getImages", "getImages", 0, <<>>, NoUser)}
        /\ events' = 0
        /\ got401' = FALSE
        /\ UNCHANGED localStorage

\* the older getImages resumes with the response to GET /api/photos
getImagesOld ==
    \E r \in pending, st \in Statuses, result \in PhotoLists :
        /\ page = "images_old" /\ r.acc = "getImages"
        /\ st # 200 => result = <<>>
        /\ LET next == ImagesOldNext(result, token) IN
           /\ step' = <<ListResp("getImages", st, result)>>
                     \o (IF st = 200 THEN <<Dom("images")>> \o next.step ELSE <<>>)
                     \o (IF st = 401 THEN <<Nav(LoginUrl, <<>>)>> ELSE <<>>)
           /\ pending' = (pending \ {r}) \cup (IF st = 200 THEN next.pending ELSE {})
           /\ dom' = IF st = 200 THEN [dom EXCEPT !.images = next.cards] ELSE dom
        /\ got401' = (got401 \/ st = 401)
        /\ UNCHANGED <<localStorage, page, token, photo_id, events>>

\* the older getUserById (no 401 branch) resumes inside the list loop; the
\* card is appended and the loop moves on
getUserByIdOld ==
    \E r \in pending, st \in Statuses, user \in Users :
        /\ page = "images_old" /\ r.acc = "getUserById"
        /\ LET image == Head(r.rest)
               got == IF st = 200 THEN user ELSE NoUser
               next == ImagesOldNext(Tail(r.rest), token)
           IN  /\ step' = Accessor("getUserById", st, FALSE)
                         \o <<Dom("images")>> \o next.step
               /\ pending' = (pending \ {r}) \cup next.pending
               /\ dom' = [dom EXCEPT !.images =
                            Append(@, Card(image, UserNameText(got),
                                           RatingText(image.rating), <<>>))
                            \o next.cards]
        /\ got401' = (got401 \/ st = 401)
        /\ UNCHANGED <<localStorage, page, token, photo_id, events>>

----------------------------------------------------------------------------
(* Photo detail page: unnamed/part_001 *)

\* comment records of a response body
Comments == { [text |-> "first", created_at |-> "t1"],
              [text |-> "second", created_at |-> "t2"] }
CommentLists == SeqsUpTo(Comments, 2)

\* text typed into the comment form
Texts == {"abc"}

\* nodes getComments appends for a list: a placeholder for an empty list,
\* then a time span and a paragraph per comment
RECURSIVE CommentNodes(_)
CommentNodes(result) ==
    IF result = <<>> THEN <<>>
    ELSE <<[kind |-> "time", text |-> Head(result).created_at],
           [kind |-> "comment", text |-> Head(result).text]>>
         \o CommentNodes(Tail(result))

\* the texts of a comment list, as the response body carries them
CommentTexts(result) == [i \in DOMAIN result |-> result[i].text]

Placeholder(result) ==
    IF Len(result) = 0 THEN <<[kind |-> "placeholder", text |-> "No comments yet"]>>
    ELSE <<>>

\* one Dom effect per appended node
RECURSIVE DomTimes(_, _)
DomTimes(c, n) == IF n = 0 THEN <<>> ELSE <<Dom(c)>> \o DomTimes(c, n - 1)

\* top-level statements of the photo page: both renderers are started, each
\* suspends on its own fetch
LoadImage ==
    \E id \in PhotoIds :
        LET t == localStorage.accessToken IN
        /\ page' = "image"
        /\ token' = t
        /\ photo_id' = id
        /\ dom' = FreshDom
        /\ step' = <<Loaded("image", localStorage)>> \o TagGuard(localStorage)
                  \o Guard(t)
                  \o <<Fetch("getImage", id, t), Fetch("getComments", id, t)>>
        /\ pending' = {Req("getImage", "getImage", 0, <<>>, NoUser),
                       Req("getComments", "getComments", 0, <<>>, NoUser)}
        /\ events' = 0
        /\ got401' = FALSE
        /\ UNCHANGED localStorage

\* getImage resumes with the response to GET /api/photos/{photo_id}: the
\* container is cleared, then getUserById is awaited (whatever user_id is)
getImage ==
    \E r \in pending, st \in Statuses, image \in Photos :
        /\ page = "image" /\ r.acc = "getImage"
        /\ step' = <<Resp("getImage", st)>>
                  \o (IF st = 200
                      THEN <<Dom("image"), Fetch("getUserById", image.user_id, token)>>
                      ELSE <<>>)
                  \o (IF st = 401 THEN <<Nav(LoginUrl, <<>>)>> ELSE <<>>)
        /\ pending' = (pending \ {r})
              \cup (IF st = 200
                    THEN {Req("getImage", "getUserById", 0, <<image>>, NoUser)}
                    ELSE {})
        /\ dom' = IF st = 200 THEN [dom EXCEPT !.image = <<>>] ELSE dom
        /\ got401' = (got401 \/ st = 401)
        /\ UNCHANGED <<localStorage, page, token, photo_id, events>>

\* getUserById resumes inside getImage, which goes on to getTags
getUserByIdImage ==
    \E r \in pending, st \in Statuses, user \in Users :
        /\ page = "image" /\ r.acc = "getUserById"
        /\ step' = Accessor("getUserById", st, TRUE)
                  \o <<Fetch("getTags", Head(r.rest).id, token)>>
        /\ pending' = (pending \ {r})
              \cup {Req("getImage", "getTags", 0, r.rest,
                        IF st = 200 THEN user ELSE NoUser)}
        /\ got401' = (got401 \/ st = 401)
        /\ UNCHANGED <<localStorage, page, token, photo_id, dom, events>>

\* getTags resumes inside getImage: the card is appended
getTagsImage ==
    \E r \in pending, st \in Statuses, tags \in TagLists :
        /\ page = "image" /\ r.acc = "getTags"
        /\ st # 200 => tags = <<>>
        /\ LET image == Head(r.rest)
               got == IF st = 200 THEN tags ELSE NoTags
           IN  /\ step' = Accessor("getTags", st, TRUE) \o <<Dom("image")>>
               /\ dom' = [dom EXCEPT !.image =
                            Append(@, Card(image, "", Unrated(image.rating), Chips(got)))]
        /\ pending' = pending \ {r}
        /\ got401' = (got401 \/ st = 401)
        /\ UNCHANGED <<localStorage, page, token, photo_id, events>>

\* a getComments that clears the whole document body before rendering
getCommentsClearingAll ==
    \E r \in pending, st \in Statuses, result \in CommentLists :
        /\ page = "image" /\ r.acc = "getComments"
        /\ st # 200 => result = <<>>
        /\ LET nodes == Placeholder(result) \o CommentNodes(result) IN
           /\ step' = <<[Resp("getComments", st) EXCEPT !.m = CommentTexts(result)]>>
                     \o (IF st = 200
                         THEN <<Dom("comments")>> \o DomTimes("comments", Len(nodes))
                         ELSE <<>>)
                     \o (IF st = 401 THEN <<Nav(LoginUrl, <<>>)>> ELSE <<>>)
           /\ dom' = IF st = 200
                     THEN [dom EXCEPT !.comments = nodes, !.image = <<>>]
                     ELSE dom
        /\ pending' = pending \ {r}
        /\ got401' = (got401 \/ st = 401)
        /\ UNCHANGED <<localStorage, page, token, photo_id, events>>

\* getComments resumes with the response to GET /api/comments/{photo_id}
getComments ==
    \E r \in pending, st \in Statuses, result \in CommentLists :
        /\ page = "image" /\ r.acc = "getComments"
        /\ st # 200 => result = <<>>
        /\ LET nodes == Placeholder(result) \o CommentNodes(result) IN
           /\ step' = <<[Resp("getComments", st) EXCEPT !.m = CommentTexts(result)]>>
                     \o (IF st = 200
                         THEN <<Dom("comments")>> \o DomTimes("comments", Len(nodes))
                         ELSE <<>>)
                     \o (IF st = 401 THEN <<Nav(LoginUrl, <<>>)>> ELSE <<>>)
           /\ dom' = IF st = 200 THEN [dom EXCEPT !.comments = nodes] ELSE dom
        /\ pending' = pending \ {r}
        /\ got401' = (got401 \/ st = 401)
        /\ UNCHANGED <<localStorage, page, token, photo_id, events>>

\* the comment form is submitted: the handler suspends on getCurrentUser
SubmitComment ==
    \E text \in Texts :
        /\ page = "image" /\ events < MaxEvents
        /\ events' = events + 1
        /\ step' = <<EV("submit", "comment", events + 1, text),
                           Fetch("getCurrentUser", 0, token)>>
        /\ pending' = pending
              \cup {[Req("submit", "getCurrentUser", events + 1, <<>>, NoUser)
                     EXCEPT !.rest = <<text>>]}
        /\ UNCHANGED <<localStorage, page, token, photo_id, dom, got401>>

\* getCurrentUser resumes inside the submit handler, which then builds the
\* POST: reading user.id of an undefined user is a TypeError
getCurrentUser ==
    \E r \in pending, st \in Statuses, user \in Users :
        /\ page = "image" /\ r.acc = "getCurrentUser"
        /\ LET got == IF st = 200 THEN user ELSE NoUser IN
           /\ step' = Accessor("getCurrentUser", st, TRUE)
                     \o (IF got = NoUser THEN <<Throw("submit")>>
                         ELSE <<[Fetch("postComment", got, token)
                                 EXCEPT !.m = <<Head(r.rest), ToString(photo_id)>>]>>)
           /\ pending' = (pending \ {r})
                 \cup (IF got = NoUser THEN {}
                       ELSE {[r EXCEPT !.acc = "postComment", !.user = got]})
        /\ got401' = (got401 \/ st = 401)
        /\ UNCHANGED <<localStorage, page, token, photo_id, dom, events>>

\* the submit handler resumes with the response to POST /api/comments/
postComment ==
    \E r \in pending, st \in Statuses :
        /\ page = "image" /\ r.acc = "postComment"
        /\ step' = <<Resp("postComment", st)>>
                  \o (IF st = 200 THEN <<Dom("message")>> ELSE <<>>)
                  \o (IF st = 401 THEN <<Nav(LoginUrl, <<>>)>> ELSE <<>>)
        /\ dom' = IF st = 200
                  THEN [dom EXCEPT !.msgText = "Comment was added successfully",
                                   !.msgClass = "text-success"]
                  ELSE dom
        /\ pending' = pending \ {r}
        /\ got401' = (got401 \/ st = 401)
        /\ UNCHANGED <<localStorage, page, token, photo_id, events>>

----------------------------------------------------------------------------
(* Older photo detail page: add_image.js, second script *)

\* nodes the older getComments appends: one div per comment
RECURSIVE CommentNodesOld(_)
CommentNodesOld(result) ==
    IF result = <<>> THEN <<>>
    ELSE <<[kind |-> "comment", text |-> Head(result).text]>>
         \o CommentNodesOld(Tail(result))

\* top-level statements of the older photo page
LoadImageOld ==
    \E id \in PhotoIds :
        LET t == localStorage.accessToken IN
        /\ page' = "image_old"
        /\ token' = t
        /\ photo_id' = id
        /\ dom' = FreshDom
        /\ step' = <<Loaded("image_old", localStorage)>> \o Guard(t)
                   \o <<Fetch("getImage", id, t), Fetch("getComments", id, t)>>
        /\ pending' = {Req("getImage", "getImage", 0, <<>>, NoUser),
                       Req("getComments", "getComments", 0, <<>>, NoUser)}
        /\ events' = 0
        /\ got401' = FALSE
        /\ UNCHANGED localStorage

\* the older getImage resumes with the response to GET /api/photos/{photo_id}:
\* const user = image?.user_id ? await getUserById(image?.user_id) : null;
\* the tags come with the photo record
getImageOld ==
    \E r \in pending, st \in Statuses, image \in Photos :
        /\ page = "image_old" /\ r.acc = "getImage"
        /\ LET owned == image.user_id # 0 IN
           /\ step' = <<Resp("getImage", st)>>
                 \o (IF st = 200
                     THEN <<Dom("image")>>
                          \o (IF owned
                              THEN <<Fetch("getUserById", image.user_id, token)>>
                              ELSE <<Dom("image")>>)
                     ELSE <<>>)
                 \o (IF st = 401 THEN <<Nav(LoginUrl, <<>>)>> ELSE <<>>)
           /\ pending' = (pending \ {r})
                 \cup (IF st = 200 /\ owned
                       THEN {Req("getImage", "getUserById", 0, <<image>>, NoUser)}
                       ELSE {})
           /\ dom' = IF st # 200 THEN dom
                     ELSE IF owned THEN [dom EXCEPT !.image = <<>>]
                     ELSE [dom EXCEPT !.image =
                             <<Card(image, "", Unrated(image.rating), <<>>)>>]
        /\ got401' = (got401 \/ st = 401)
        /\ UNCHANGED <<localStorage, page, token, photo_id, events>>

\* the older getUserById (no 401 branch) resumes inside getImage: the card
\* is appended
getUserByIdImageOld ==
    \E r \in pending, st \in Statuses :
        /\ page = "image_old" /\ r.acc = "getUserById"
        /\ LET image == Head(r.rest) IN
           /\ step' = Accessor("getUserById", st, FALSE) \o <<Dom("image")>>
           /\ dom' = [dom EXCEPT !.image =
                        Append(@, Card(image, "", Unrated(image.rating), <<>>))]
        /\ pending' = pending \ {r}
        /\ got401' = (got401 \/ st = 401)
        /\ UNCHANGED <<localStorage, page, token, photo_id, events>>

\* the older getComments (no 401 branch, no placeholder) resumes
getCommentsOld ==
    \E r \in pending, st \in Statuses, result \in CommentLists :
        /\ page = "image_old" /\ r.acc = "getComments"
        /\ st # 200 => result = <<>>
        /\ LET nodes == CommentNodesOld(result) IN
           /\ step' = <<[Resp("getComments", st) EXCEPT !.m = CommentTexts(result)]>>
                 \o (IF st = 200
                     THEN <<Dom("comments")>> \o DomTimes("comments", Len(nodes))
                     ELSE <<>>)
           /\ dom' = IF st = 200 THEN [dom EXCEPT !.comments = nodes] ELSE dom
        /\ pending' = pending \ {r}
        /\ got401' = (got401 \/ st = 401)
        /\ UNCHANGED <<localStorage, page, token, photo_id, events>>

\* the comment form of the older photo page is submitted
SubmitCommentOld ==
    \E text \in Texts :
        /\ page = "image_old" /\ events < MaxEvents
        /\ events' = events + 1
        /\ step' = <<EV("submit", "comment", events + 1, text),
                     Fetch("getCurrentUser", 0, token)>>
        /\ pending' = pending
              \cup {[Req("submit", "getCurrentUser", events + 1, <<>>, NoUser)
                     EXCEPT !.rest = <<text>>]}
        /\ UNCHANGED <<localStorage, page, token, photo_id, dom, got401>>

\* the older getCurrentUser (no 401 branch) resumes inside the submit handler
getCurrentUserOld ==
    \E r \in pending, st \in Statuses, user \in Users :
        /\ page = "image_old" /\ r.acc = "getCurrentUser"
        /\ LET got == IF st = 200 THEN user ELSE NoUser IN
           /\ step' = Accessor("getCurrentUser", st, FALSE)
                 \o (IF got = NoUser THEN <<Throw("submit")>>
                     ELSE <<[Fetch("postComment", got, token)
                             EXCEPT !.m = <<Head(r.rest), ToString(photo_id)>>]>>)
           /\ pending' = (pending \ {r})
                 \cup (IF got = NoUser THEN {}
                       ELSE {[r EXCEPT !.acc = "postComment", !.user = got]})
        /\ got401' = (got401 \/ st = 401)
        /\ UNCHANGED <<localStorage, page, token, photo_id, dom, events>>

\* the older submit handler resumes with the response to POST /api/comments/:
\* the body of a 200 is parsed and dropped
postCommentOld ==
    \E r \in pending, st \in Statuses :
        /\ page = "image_old" /\ r.acc = "postComment"
        /\ step' = <<Resp("postComment", st)>>
        /\ pending' = pending \ {r}
        /\ got401' = (got401 \/ st = 401)
        /\ UNCHANGED <<localStorage, page, token, photo_id, dom, events>>

----------------------------------------------------------------------------
(* Add-image page: add_image.js, first script *)

\* top-level statements of the add-image page: the guard, then the submit
\* listener is registered
LoadAddImage ==
    LET t == localStorage.accessToken IN
    /\ page' = "add_image"
    /\ token' = t
    /\ photo_id' = 0
    /\ dom' = FreshDom
    /\ step' = <<Loaded("add_image", localStorage)>> \o Guard(t)
    /\ pending' = {}
    /\ events' = 0
    /\ got401' = FALSE
    /\ UNCHANGED localStorage

\* the upload form is submitted: POST /api/photos
SubmitUpload ==
    /\ page = "add_image" /\ events < MaxEvents
    /\ events' = events + 1
    /\ step' = <<EV("submit", "upload", events + 1, ""),
                 Fetch("upload", 0, token)>>
    /\ pending' = pending \cup {Req("submit", "upload", events + 1, <<>>, NoUser)}
    /\ UNCHANGED <<localStorage, page, token, photo_id, dom, got401>>

\* an upload handler whose 401 branch also clears local storage
uploadClearing ==
    \E r \in pending, st \in Statuses :
        /\ page = "add_image" /\ r.acc = "upload"
        /\ step' = <<Resp("upload", st)>>
                  \o (IF st = 200 THEN <<Dom("message")>> ELSE <<>>)
                  \o (IF st = 401 THEN <<Nav(LoginUrl, <<>>)>> ELSE <<>>)
        /\ dom' = IF st = 200
                  THEN [dom EXCEPT !.msgText = "Image uploaded successfully",
                                   !.msgClass = "text-success"]
                  ELSE dom
        /\ pending' = pending \ {r}
        /\ got401' = (got401 \/ st = 401)
        /\ localStorage' = IF st = 401
                           THEN [accessToken |-> Null, refreshToken |-> Null]
                           ELSE localStorage
        /\ UNCHANGED <<page, token, photo_id, events>>

\* the upload handler resumes with the response
upload ==
    \E r \in pending, st \in Statuses :
        /\ page = "add_image" /\ r.acc = "upload"
        /\ step' = <<Resp("upload", st)>>
                  \o (IF st = 200 THEN <<Dom("message")>> ELSE <<>>)
                  \o (IF st = 401 THEN <<Nav(LoginUrl, <<>>)>> ELSE <<>>)
        /\ dom' = IF st = 200
                  THEN [dom EXCEPT !.msgText = "Image uploaded successfully",
                                   !.msgClass = "text-success"]
                  ELSE dom
        /\ pending' = pending \ {r}
        /\ got401' = (got401 \/ st = 401)
        /\ UNCHANGED <<localStorage, page, token, photo_id, events>>

----------------------------------------------------------------------------
(* User profile page: user_profile.js *)

\* a list loop that starts the tag lookup of every photo at once
ProfileNextFanOut(rest, t) ==
    IF rest = <<>> THEN [step |-> <<>>, pending |-> {}]
    ELSE [step |-> [i \in DOMAIN rest |-> Fetch("getTags", rest[i].id, t)],
          pending |-> {Req("getUserImages", "getTags", 0,
                           SubSeq(rest, i, Len(rest)), NoUser) : i \in DOMAIN rest}]

\* the list loop of getUserImages from the head of `rest`, up to its await
ProfileNext(rest, t) ==
    IF rest = <<>> THEN [step |-> <<>>, pending |-> {}]
    ELSE [step |-> <<Fetch("getTags", Head(rest).id, t)>>,
          pending |-> {Req("getUserImages", "getTags", 0, rest, NoUser)}]

\* top-level statements of the profile page up to `await getInfoUser()`
LoadUserProfile ==
    LET t == localStorage.accessToken IN
    /\ page' = "user_profile"
    /\ token' = t
    /\ photo_id' = 0
    /\ dom' = FreshDom
    /\ step' = <<Loaded("user_profile", localStorage)>> \o TagGuard(localStorage)
               \o Guard(t) \o <<Fetch("getInfoUser", 0, t)>>
    /\ pending' = {Req("main", "getInfoUser", 0, <<>>, NoUser)}
    /\ events' = 0
    /\ got401' = FALSE
    /\ UNCHANGED localStorage

\* getInfoUser resumes with the response to GET /api/users/me; the top level
\* then calls getUserImages(user) with user?.id
getInfoUser ==
    \E r \in pending, st \in Statuses, user \in Users :
        /\ page = "user_profile" /\ r.acc = "getInfoUser"
        /\ LET got == IF st = 200 THEN user ELSE NoUser IN
           /\ step' = <<Resp("getInfoUser", st)>>
                 \o (IF st = 200 THEN <<Dom("aboutUser"), Dom("aboutUser")>> ELSE <<>>)
                 \o (IF st = 401 THEN <<Nav(LoginUrl, <<>>)>> ELSE <<>>)
                 \o <<Ret("getInfoUser", IF st = 200 THEN 1 ELSE 0),
                      Fetch("getUserImages", got, token)>>
           /\ dom' = IF st = 200
                     THEN [dom EXCEPT !.aboutUser = <<UserNameText(user)>>]
                     ELSE dom
           /\ pending' = (pending \ {r})
                 \cup {Req("getUserImages", "getUserImages", 0, <<>>, got)}
        /\ got401' = (got401 \/ st = 401)
        /\ UNCHANGED <<localStorage, page, token, photo_id, events>>

\* getUserImages resumes with the response to
\* GET /api/photos/search/{user_id}/?limit=50
getUserImages ==
    \E r \in pending, st \in Statuses, result \in PhotoLists :
        /\ page = "user_profile" /\ r.acc = "getUserImages"
        /\ st # 200 => result = <<>>
        /\ LET next == ProfileNext(result, token) IN
           /\ step' = <<ListResp("getUserImages", st, result)>>
                 \o (IF st = 200 THEN <<Dom("userImages")>> \o next.step ELSE <<>>)
                 \o (IF st = 401 THEN <<Nav(LoginUrl, <<>>)>> ELSE <<>>)
           /\ pending' = (pending \ {r}) \cup (IF st = 200 THEN next.pending ELSE {})
           /\ dom' = IF st = 200 THEN [dom EXCEPT !.userImages = <<>>] ELSE dom
        /\ got401' = (got401 \/ st = 401)
        /\ UNCHANGED <<localStorage, page, token, photo_id, events>>

\* a loop body that replaces the content of the container by the card
getTagsProfileReplacing ==
    \E r \in pending, st \in Statuses, tags \in TagLists :
        /\ page = "user_profile" /\ r.acc = "getTags"
        /\ st # 200 => tags = <<>>
        /\ LET image == Head(r.rest)
               got == IF st = 200 THEN tags ELSE NoTags
               next == ProfileNext(Tail(r.rest), token)
           IN  /\ step' = Accessor("getTags", st, TRUE)
                         \o <<Dom("userImages")>> \o next.step
               /\ pending' = (pending \ {r}) \cup next.pending
               /\ dom' = [dom EXCEPT !.userImages =
                            <<Card(image, "", Unrated(image.rating), Chips(got))>>]
        /\ got401' = (got401 \/ st = 401)
        /\ UNCHANGED <<localStorage, page, token, photo_id, events>>

\* getTags resumes inside the loop of getUserImages
getTagsProfile ==
    \E r \in pending, st \in Statuses, tags \in TagLists :
        /\ page = "user_profile" /\ r.acc = "getTags"
        /\ st # 200 => tags = <<>>
        /\ LET image == Head(r.rest)
               got == IF st = 200 THEN tags ELSE NoTags
               next == ProfileNext(Tail(r.rest), token)
           IN  /\ step' = Accessor("getTags", st, TRUE)
                         \o <<Dom("userImages")>> \o next.step
               /\ pending' = (pending \ {r}) \cup next.pending
               /\ dom' = [dom EXCEPT !.userImages =
                            Append(@, Card(image, "", Unrated(image.rating), Chips(got)))]
        /\ got401' = (got401 \/ st = 401)
        /\ UNCHANGED <<localStorage, page, token, photo_id, events>>

----------------------------------------------------------------------------
(* Rating page: signup.js, second script *)

\* the stars a click can land on
LikeValues == {1, 5}

\* statuses PUT /api/photos/{id}/rating is answered with
RatingStatuses == {200, 400, 401, 403}

\* `detail` of an error body
Details == {"Rating must be between 1 and 5"}

\* top-level statements of the rating page
LoadRating ==
    \E id \in PhotoIds :
        LET t == localStorage.accessToken IN
        /\ page' = "rating"
        /\ token' = t
        /\ photo_id' = id
        /\ dom' = FreshDom
        /\ step' = <<Loaded("rating", localStorage)>> \o Guard(t)
        /\ pending' = {}
        /\ events' = 0
        /\ got401' = FALSE
        /\ UNCHANGED localStorage

\* a star is clicked: press_rating(n) up to its fetch
press_rating ==
    \E n \in LikeValues :
        /\ page = "rating" /\ events < MaxEvents
        /\ events' = events + 1
        /\ step' = <<EV("click", "star", n, "")>> \o Guard(token)
                   \o <<Dom("stars"), Dom("stars"), Fetch("rating", n, token)>>
        /\ dom' = [dom EXCEPT !.stars = n]
        /\ pending' = pending \cup {Req("press_rating", "rating", events + 1, <<>>, NoUser)}
        /\ UNCHANGED <<localStorage, page, token, photo_id, got401>>

\* press_rating resumes with the response
rating ==
    \E r \in pending, st \in RatingStatuses, detail \in Details :
        /\ page = "rating" /\ r.acc = "rating"
        /\ step' = <<Resp("rating", st)>>
                  \o (IF st = 400 THEN <<Dom("error"), Dom("error")>> ELSE <<>>)
                  \o (IF st = 401 THEN <<Nav(LoginUrl, <<>>)>> ELSE <<>>)
        /\ dom' = IF st = 400 THEN [dom EXCEPT !.error = detail] ELSE dom
        /\ pending' = pending \ {r}
        /\ got401' = (got401 \/ st = 401)
        /\ UNCHANGED <<localStorage, page, token, photo_id, events>>

----------------------------------------------------------------------------
(* Strings carried in URLs *)

\* message.split("\n"): the lines of a message
RECURSIVE Split(_)
Split(msg) ==
    IF \A i \in DOMAIN msg : msg[i] # "\n" THEN <<msg>>
    ELSE LET k == CHOOSE i \in DOMAIN msg :
                      msg[i] = "\n" /\ \A j \in 1..(i - 1) : msg[j] # "\n"
         IN  <<SubSeq(msg, 1, k - 1)>> \o Split(SubSeq(msg, k + 1, Len(msg)))

\* encodeURIComponent: letters and digits pass, the space, the comma and the
\* newline are percent-encoded
EncodeChar(c) ==
    CASE c = " " -> "%20"
      [] c = "," -> "%2C"
      [] c = "\n" -> "%0A"
      [] OTHER -> c

encodeURIComponent(msg) == [i \in DOMAIN msg |-> EncodeChar(msg[i])]

\* the literals of the signup handlers, as words and separators
ConflictMessage ==
    <<"An", " ", "account", " ", "with", " ", "the", " ", "same", " ", "email",
      " ", "address", " ", "or", " ", "username", " ", "already", " ", "exists">>

ActivationMessage ==
    <<"Please", ",", " ", "check", " ", "your", " ", "email", " ", "to", " ",
      "activate", " ", "your", " ", "account">>

IndexUrl == "/templates/index.html"
ImagesUrl == "/templates/images.html"
SignupUrl == "/templates/signup.html"
SignupOldUrl == "/static/client_rest/signup.html"
LoginSlashUrl == "/templates/login.html/"

\* a request that carries no Authorization header
NoAuth == "none"

----------------------------------------------------------------------------
(* Login page: login.js, first script *)

\* bodies of the login responses: the token pair of a 200, and the error
\* fields of the others ("" stands for a missing field)
TokenBodies == [access_token : AccessTokens, refresh_token : RefreshTokens]
ErrorBodies == [detail : {"", "Invalid credentials"}, message : {"", "failed"}]
LoginStatuses == {200, 401, 404}

\* the operands of || exchanged
MessageOrDetail(result) == IF result.message # "" THEN result.message ELSE result.detail

\* result.detail || result.message
DetailOrMessage(result) == IF result.detail # "" THEN result.detail ELSE result.message

\* top-level statements of the login page: the banner shows one paragraph
\* per line of the message
LoadLogin ==
    \E msg \in Messages :
        /\ page' = "login"
        /\ token' = Null
        /\ photo_id' = 0
        /\ dom' = [FreshDom EXCEPT !.banner = IF msg # <<>> THEN Split(msg) ELSE <<>>]
        /\ step' = <<LoadedWith("login", localStorage, msg)>>
                   \o (IF msg # <<>>
                       THEN <<Dom("banner")>> \o DomTimes("banner", Len(Split(msg)) + 2)
                       ELSE <<>>)
        /\ pending' = {}
        /\ events' = 0
        /\ got401' = FALSE
        /\ UNCHANGED localStorage

\* the login form is submitted: POST /api/auth/login
SubmitLogin ==
    /\ page = "login" /\ events < MaxEvents
    /\ events' = events + 1
    /\ step' = <<EV("submit", "login", events + 1, ""), Fetch("login", 0, NoAuth)>>
    /\ pending' = pending \cup {Req("submit", "login", events + 1, <<>>, NoUser)}
    /\ UNCHANGED <<localStorage, page, token, photo_id, dom, got401>>

\* the refresh token written under both keys
StoreRefreshTwice(result) ==
    [accessToken |-> result.refresh_token, refreshToken |-> result.refresh_token]

\* local storage after the two setItem calls of a successful login
StoreTokens(result) ==
    [accessToken |-> result.access_token, refreshToken |-> result.refresh_token]

\* the effects of a successful login, in program order
LoginSuccess(result) ==
    <<SetItem("accessToken", result.access_token),
      SetItem("refreshToken", result.refresh_token),
      Nav(IndexUrl, <<>>)>>

\* a failed login that sends the request again
LoginFailureRetrying(st) ==
    <<Dom("banner")>> \o (IF st = 401 THEN <<Dom("banner"), Dom("banner")>> ELSE <<>>)
    \o <<Fetch("login", 0, NoAuth)>>

\* the effects of a failed login: the else branch, then the 401 branch
LoginFailure(st) ==
    <<Dom("banner")>> \o (IF st = 401 THEN <<Dom("banner"), Dom("banner")>> ELSE <<>>)

\* the login handler resumes with the response
login ==
    \E r \in pending, st \in LoginStatuses, ok \in TokenBodies, err \in ErrorBodies :
        /\ page = "login" /\ r.acc = "login"
        /\ step' = <<[Resp("login", st) EXCEPT !.m =
                        IF st = 200 THEN <<ok.access_token, ok.refresh_token>>
                        ELSE <<err.detail, err.message>>]>>
                   \o (IF st = 200 THEN LoginSuccess(ok) ELSE LoginFailure(st))
        /\ localStorage' = IF st = 200 THEN StoreTokens(ok) ELSE localStorage
        /\ dom' = IF st = 200 THEN dom
                  ELSE [dom EXCEPT !.banner = <<>>,
                                   !.msgText = DetailOrMessage(err),
                                   !.msgColor = IF st = 401 THEN "red" ELSE @]
        /\ pending' = pending \ {r}
        /\ got401' = (got401 \/ st = 401)
        /\ UNCHANGED <<page, token, photo_id, events>>

----------------------------------------------------------------------------
(* Signup page: login.js, second script *)

\* bodies of the signup responses: `detail` is a list of errors or missing
SignupBodies == [detail : {"", "field required"}, message : {"", "failed"},
                 user : BOOLEAN]
SignupStatuses == {201, 409, 422}

\* the response of a signup request, with what its body holds
SignupResp(st, result) ==
    [Resp("signup", st) EXCEPT !.s = IF result.user THEN "user" ELSE "",
                               !.m = <<result.detail, result.message>>]

\* top-level statements of a signup page: the banner is one paragraph
LoadSignup ==
    \E msg \in Messages :
        /\ page' = "signup"
        /\ token' = Null
        /\ photo_id' = 0
        /\ dom' = [FreshDom EXCEPT !.banner = Banner(msg)]
        /\ step' = <<LoadedWith("signup", localStorage, msg)>> \o BannerLog(msg)
        /\ pending' = {}
        /\ events' = 0
        /\ got401' = FALSE
        /\ UNCHANGED localStorage

\* the signup form is submitted: POST /api/auth/signup
SubmitSignup ==
    /\ page = "signup" /\ events < MaxEvents
    /\ events' = events + 1
    /\ step' = <<EV("submit", "signup", events + 1, ""), Fetch("signup", 0, NoAuth)>>
    /\ pending' = pending \cup {Req("submit", "signup", events + 1, <<>>, NoUser)}
    /\ UNCHANGED <<localStorage, page, token, photo_id, dom, got401>>

\* where the signup handler sends the browser, by status
SignupNav(st) ==
    IF st = 201 THEN <<Nav(LoginSlashUrl, ActivationMessage)>>
    ELSE IF st = 409 THEN <<Nav(SignupUrl, encodeURIComponent(ConflictMessage))>>
    ELSE <<>>

\* the signup handler resumes with the response: the `else` belongs to the
\* 409 test, so it also runs on 201; result.detail[0] of a body without
\* detail is a TypeError
signup ==
    \E r \in pending, st \in SignupStatuses, result \in SignupBodies :
        /\ page = "signup" /\ r.acc = "signup"
        /\ step' = <<SignupResp(st, result)>> \o SignupNav(st)
                   \o (IF st = 409 THEN <<>>
                       ELSE IF result.detail = "" THEN <<Throw("signup")>>
                       ELSE <<Dom("banner")>>)
        /\ dom' = IF st # 409 /\ result.detail # ""
                  THEN [dom EXCEPT !.banner = <<>>, !.msgText = result.detail]
                  ELSE dom
        /\ pending' = pending \ {r}
        /\ UNCHANGED <<localStorage, page, token, photo_id, events, got401>>

----------------------------------------------------------------------------
(* Older signup page: signup.js, first script *)

LoadSignupOld ==
    \E msg \in Messages :
        /\ page' = "signup_old"
        /\ token' = Null
        /\ photo_id' = 0
        /\ dom' = [FreshDom EXCEPT !.banner = Banner(msg)]
        /\ step' = <<LoadedWith("signup_old", localStorage, msg)>> \o BannerLog(msg)
        /\ pending' = {}
        /\ events' = 0
        /\ got401' = FALSE
        /\ UNCHANGED localStorage

SubmitSignupOld ==
    /\ page = "signup_old" /\ events < MaxEvents
    /\ events' = events + 1
    /\ step' = <<EV("submit", "signup", events + 1, ""), Fetch("signup", 0, NoAuth)>>
    /\ pending' = pending \cup {Req("submit", "signup", events + 1, <<>>, NoUser)}
    /\ UNCHANGED <<localStorage, page, token, photo_id, dom, got401>>

\* where the older signup handler sends the browser, by status: on 201 the
\* congratulation message is built and dropped
SignupOldNav(st) ==
    IF st = 201 THEN <<Nav(ImagesUrl, <<>>)>>
    ELSE IF st = 409 THEN <<Nav(SignupOldUrl, encodeURIComponent(ConflictMessage))>>
    ELSE <<>>

\* the older signup handler resumes with the response: on 201 it reads
\* result.user.first_name, a TypeError when the body has no user
signupOld ==
    \E r \in pending, st \in SignupStatuses, result \in SignupBodies :
        /\ page = "signup_old" /\ r.acc = "signup"
        /\ step' = <<SignupResp(st, result)>>
                   \o (IF st = 201 /\ ~result.user THEN <<Throw("signup")>>
                       ELSE SignupOldNav(st))
        /\ pending' = pending \ {r}
        /\ UNCHANGED <<localStorage, page, token, photo_id, dom, events, got401>>

----------------------------------------------------------------------------
(* Logout button: logout.js.  The script is a module of its own, without  *)
(* session guard; the page that includes it is modelled as a page that    *)
(* runs this script only.                                                 *)

LogoutUrl == "/templates/logout.html"

\* how the logout request ends: a response whose body parses as JSON, a
\* response whose body does not, or a rejected fetch (network failure)
LogoutOutcomes == {"json", "unparsable", "failed"}

\* the fetch promise was rejected
Reject(acc) == EV("reject", acc, 0, "")
\* console.log("Error:", error) in a catch block
Log(where) == EV("log", where, 0, "")

\* a clear() that leaves the refresh token behind
ClearedAccessOnly == [accessToken |-> Null, refreshToken |-> "r1"]

\* localStorage.clear()
Cleared == [accessToken |-> Null, refreshToken |-> Null]

\* top-level statements of logout.js: the click listener is registered
LoadLogout ==
    /\ page' = "logout_host"
    /\ token' = Null
    /\ photo_id' = 0
    /\ dom' = FreshDom
    /\ step' = <<Loaded("logout_host", localStorage)>>
    /\ pending' = {}
    /\ events' = 0
    /\ got401' = FALSE
    /\ UNCHANGED localStorage

\* the logout button is clicked: the token is read from local storage at
\* the click, then GET /api/auth/logout is issued
ClickLogout ==
    /\ page = "logout_host" /\ events < MaxEvents
    /\ events' = events + 1
    /\ step' = <<EV("click", "logout", events + 1, ""),
                 Fetch("logout", 0, localStorage.accessToken)>>
    /\ pending' = pending \cup {Req("logout", "logout", events + 1, <<>>, NoUser)}
    /\ UNCHANGED <<localStorage, page, token, photo_id, dom, got401>>

\* the try block of logout after its awaits, by outcome: the navigation and
\* the clear follow `await response.json()`; a rejected fetch or an
\* unparsable body goes to the catch block
LogoutEffects(outcome, st) ==
    (IF outcome = "failed" THEN <<Reject("logout")>> ELSE <<Resp("logout", st)>>)
    \o (IF outcome = "json"
        THEN <<Nav(LogoutUrl, <<>>), EV("clear", "localStorage", 0, "")>>
        ELSE <<Log("logout")>>)

\* logout resumes with the outcome of its request; the status is not read
logout ==
    \E r \in pending, outcome \in LogoutOutcomes, st \in Statuses :
        /\ page = "logout_host" /\ r.acc = "logout"
        /\ outcome = "failed" => st = 200
        /\ step' = LogoutEffects(outcome, st)
        /\ localStorage' = IF outcome = "json" THEN Cleared ELSE localStorage
        /\ pending' = pending \ {r}
        /\ got401' = (got401 \/ (outcome # "failed" /\ st = 401))
        /\ UNCHANGED <<page, token, photo_id, dom, events>>

----------------------------------------------------------------------------
(* Reading the effects of a task *)

IsLoad(stp) == stp # <<>> /\ stp[1].e = "load"
FetchAt(stp) == {i \in DOMAIN stp : stp[i].e = "fetch"}
DomAt(stp) == {i \in DOMAIN stp : stp[i].e = "dom"}
NavAt(stp) == {i \in DOMAIN stp : stp[i].e = "nav"}
LoginNavAt(stp) == {i \in DOMAIN stp : stp[i].e = "nav" /\ stp[i].a = LoginUrl}
RespAt(stp, st) == {i \in DOMAIN stp : stp[i].e = "resp" /\ stp[i].n = st}
SetAt(stp, key) == {i \in DOMAIN stp : stp[i].e = "set" /\ stp[i].a = key}

\* the accessors of the guarded pages
ResourceAccessors ==
    {"getUserById", "getCurrentUser", "getInfoUser", "getImage", "getImages",
     "getUserImages", "getComments", "getTags", "postComment", "rating", "upload"}

\* every card a photo renderer has put into a container
AllCards ==
    {dom.images[i] : i \in DOMAIN dom.images}
    \cup {dom.image[i] : i \in DOMAIN dom.image}
    \cup {dom.userImages[i] : i \in DOMAIN dom.userImages}

----------------------------------------------------------------------------
(* Session guard *)

\* C1: a guarded page loaded without a session token issues no HTTP request,
\* neither while loading nor from a later event handler.
C1_NoRequestWithoutToken ==
    (page \in GuardedPages /\ Falsy(token)) => FetchAt(step) = {}

C3_NoRenderWithoutToken ==
    (page \in GuardedPages /\ Falsy(token)) => (DomAt(step) = {} /\ dom = FreshDom)

----------------------------------------------------------------------------
(* 401 handling *)

\* C4: whenever a resource accessor (of a page that passed its guard) is
\* answered 401 it requests the login page and returns no data.
C4_Every401Redirects ==
    \A i \in RespAt(step, 401) :
        (step[i].a \in ResourceAccessors /\ ~Falsy(token))
            => /\ \E j \in LoginNavAt(step) : j > i
               /\ \A j \in DOMAIN step :
                     ~(j > i /\ step[j].e = "ret" /\ step[j].a = step[i].a /\ step[j].n = 1)

\* C5: once an accessor of a page (that passed its guard) was answered 401, the page issues no
\* further HTTP request: none later in the same task, none in a later task.
C5_NoRequestAfter401 ==
    [][ ~Falsy(token') =>
          /\ (got401 /\ ~IsLoad(step')) => FetchAt(step') = {}
          /\ \A i \in RespAt(step', 401) : \A j \in FetchAt(step') : j < i ]_vars

\* C6 as claimed: after a 401 (on a page that passed its guard) the stored
\* token no longer passes the session guard, so the next load of a guarded
\* page requests the login page.
C6_401InvalidatesSession ==
    [][ (got401 /\ ~Falsy(token) /\ ~Falsy(localStorage.accessToken)
           /\ IsLoad(step') /\ page' \in GuardedPages)
            => LoginNavAt(step') # {} ]_vars

\* C6 as amended: a 401 response leaves local storage unchanged, so the
\* session is not invalidated: while both tokens stay stored, the load of a
\* guarded page that follows a 401 passes the session guard again.
C6_401KeepsSession ==
    [][ /\ (\E i \in RespAt(step', 401) : step'[i].a \in ResourceAccessors)
              => localStorage' = localStorage
        /\ (got401 /\ IsLoad(step') /\ page' \in GuardedPages
               /\ ~Falsy(localStorage.accessToken)
               /\ ~Falsy(localStorage.refreshToken))
              => (LoginNavAt(step') = {} /\ ~Falsy(token')) ]_vars

\* C6 witness: a page that passed the guard was answered 401, requested the
\* login page, and the token is still stored.
C6_Witness ==
    /\ got401 /\ ~Falsy(token) /\ page \in GuardedPages
    /\ RespAt(step, 401) # {} /\ LoginNavAt(step) # {}
    /\ localStorage.accessToken = token

----------------------------------------------------------------------------
(* Star rendering *)

\* C7: every photo card (of a page that passed its guard) shows round(rating) stars for a rating in [0,5],
\* and for a null rating no star and the label "unrated"; the label is
\* shown for a null rating only.
C7_StarsAndUnrated ==
    ~Falsy(token) => \A card \in AllCards :
        /\ card.rating \in 0..50 =>
              (10 * card.stars - 5 <= card.rating /\ card.rating < 10 * card.stars + 5)
        /\ card.rating = RatingNull => (card.stars = 0 /\ card.label = " unrated")
        /\ card.rating # RatingNull => card.label # " unrated"

----------------------------------------------------------------------------
(* Login and signup *)

\* C8: a 200 answer to the login request stores access_token under
\* accessToken and refresh_token under refreshToken, then requests the home
\* page: both setItem calls precede the navigation.
C8_LoginSuccess ==
    \A i \in RespAt(step, 200) :
        step[i].a = "login"
            => /\ localStorage = [accessToken |-> step[i].m[1],
                                  refreshToken |-> step[i].m[2]]
               /\ \E n \in NavAt(step) :
                     /\ step[n].a = IndexUrl
                     /\ \E j \in SetAt(step, "accessToken") :
                           i < j /\ j < n /\ step[j].s = step[i].m[1]
                     /\ \E k \in SetAt(step, "refreshToken") :
                           i < k /\ k < n /\ step[k].s = step[i].m[2]

\* C8 witness: the login handler has just handled a 200.
C8_Witness ==
    /\ page = "login" /\ step # <<>>
    /\ step[1].e = "resp" /\ step[1].a = "login" /\ step[1].n = 200
    /\ localStorage.accessToken \in AccessTokens

\* C9: a 401 answer to the login request shows the body's detail, or its
\* message when there is no detail, in the message element, requests no
\* navigation and leaves local storage unchanged.
C9_LoginFailure ==
    [][ \A i \in RespAt(step', 401) :
            step'[i].a = "login"
                => /\ dom'.msgText = (IF step'[i].m[1] # "" THEN step'[i].m[1]
                                      ELSE step'[i].m[2])
                   /\ NavAt(step') = {}
                   /\ SetAt(step', "accessToken") \cup SetAt(step', "refreshToken") = {}
                   /\ localStorage' = localStorage ]_vars

\* C9 witness: the login handler has just handled a 401 whose body carries
\* both fields, and shows the detail.
C9_Witness ==
    /\ page = "login" /\ step # <<>>
    /\ step[1].e = "resp" /\ step[1].a = "login" /\ step[1].n = 401
    /\ step[1].m = <<"Invalid credentials", "failed">>
    /\ dom.msgText = "Invalid credentials" /\ dom.msgColor = "red"

\* C10: in every signup script a 409 requests the signup page with the
\* URL-encoded message that the account already exists, and a 201 (whose
\* body holds the new user) requests the login page with the activation
\* message.
C10_SignupRouting ==
    /\ \A i \in RespAt(step, 409) :
          step[i].a = "signup"
              => \E n \in NavAt(step) :
                    /\ n > i
                    /\ step[n].a \in {SignupUrl, SignupOldUrl}
                    /\ step[n].m = encodeURIComponent(ConflictMessage)
    /\ \A i \in RespAt(step, 201) :
          (step[i].a = "signup" /\ step[i].s = "user")
              => \E n \in NavAt(step) :
                    /\ n > i
                    /\ step[n].a \in {LoginUrl, LoginSlashUrl}
                    /\ step[n].m # <<>>

----------------------------------------------------------------------------
(* Comments *)

ImagePages == {"image", "image_old"}
SuccessText == "Comment was added successfully"

\* C11: on every photo page (that passed its guard) the comment handler
\* issues POST /api/comments/?user_id=u for the current user u with the body
\* {text, photo_id} of the submitted text and the page's photo, and when the
\* POST is answered 200 it shows the success message.
C11_CommentSubmission ==
    (page \in ImagePages /\ ~Falsy(token)) =>
        /\ \A i \in FetchAt(step) :
              step[i].a = "postComment"
                  => \E r \in pending :
                        /\ r.acc = "postComment" /\ r.user \in Users
                        /\ step[i].n = r.user
                        /\ step[i].m = <<Head(r.rest), ToString(photo_id)>>
        /\ \A i \in RespAt(step, 200) :
              step[i].a = "postComment"
                  => /\ dom.msgText = SuccessText
                     /\ \E j \in DomAt(step) : j > i /\ step[j].a = "message"

\* C12: when a comment POST is answered 200 and the page (which passed its
\* guard and met no 401) has come to rest, the comment container holds what
\* it held before, in the same order, followed by an entry with the
\* submitted text.
C12_NewCommentListed ==
    [][ (page' \in ImagePages /\ ~Falsy(token') /\ ~got401' /\ pending' = {}
            /\ \E i \in RespAt(step', 200) : step'[i].a = "postComment")
          => /\ Len(dom'.comments) > Len(dom.comments)
             /\ SubSeq(dom'.comments, 1, Len(dom.comments)) = dom.comments
             /\ \E k \in (Len(dom.comments) + 1)..Len(dom'.comments) :
                   dom'.comments[k].kind = "comment"
                   /\ dom'.comments[k].text \in Texts ]_vars

----------------------------------------------------------------------------
(* Logout and the Authorization header *)

\* C13: when the logout handler, started in a session (an access token is
\* stored), has run to its end, whatever the outcome of its request, local
\* storage holds neither accessToken nor refreshToken.
C13_LogoutClears ==
    [][ (~Falsy(localStorage.accessToken) /\ step' # <<>>
            /\ step'[1].a = "logout" /\ step'[1].e \in {"resp", "reject"})
          => localStorage' = Cleared ]_vars

\* C14: in a session (an access token is stored, the page passed its guard
\* if it has one) every request that carries an Authorization header carries
\* the value stored under accessToken, which is present.
C14_BearerIsAccessToken ==
    (~Falsy(localStorage.accessToken) /\ (page \in GuardedPages => ~Falsy(token))) =>
        \A i \in FetchAt(step) :
            step[i].s # NoAuth
                => (~Falsy(step[i].s) /\ step[i].s = localStorage.accessToken)

----------------------------------------------------------------------------
(* Scheduling of the requests *)

ListPages == {"images", "images_old", "user_profile"}
ListRenderers == {"getImages", "getUserImages"}
Lookups == {"getUserById", "getTags"}

\* the container a list page renders its photos into
ListContainer(d, p) == IF p = "user_profile" THEN d.userImages ELSE d.images

\* the requests of the list renderer that are in flight
RendererReqs(pnd) == {r \in pnd : r.task \in ListRenderers}

\* the photos the suspended list renderer has still to render
RestOf(pnd) ==
    LET waiting == {r \in RendererReqs(pnd) : r.acc \in Lookups}
    IN  IF waiting = {} THEN <<>> ELSE (CHOOSE r \in waiting : TRUE).rest

\* what the lookup of accessor acc is keyed by
LookupKey(acc, image) == IF acc = "getTags" THEN image.id ELSE image.user_id

\* C15: on the list pages (images, older images, user profile) at most one
\* request of the list renderer is in flight; a
\* lookup is started for the first photo not yet rendered only; and the
\* cards in the container followed by the photos still to render are the
\* response list in its order, so cards appear in list order and a photo's
\* lookups start after the cards of all photos before it were appended.
C15_OneItemAtATime ==
    [][ page' \in ListPages =>
          /\ Cardinality(RendererReqs(pending')) <= 1
          /\ \A i \in FetchAt(step') :
                step'[i].a \in Lookups
                    => \E r \in RendererReqs(pending') :
                          /\ r.acc = step'[i].a /\ r.rest # <<>>
                          /\ step'[i].n = LookupKey(r.acc, Head(r.rest))
          /\ (page' = page /\ ~IsLoad(step')) =>
                Ids(ListContainer(dom', page')) \o Ids(RestOf(pending'))
                  = IF step'[1].e = "resp" /\ step'[1].n = 200
                       /\ step'[1].a \in ListRenderers
                    THEN step'[1].m
                    ELSE Ids(ListContainer(dom, page)) \o Ids(RestOf(pending)) ]_vars

\* C15 witness: a list page has rendered a list of two different photos, the
\* second after the lookups of the first.
C15_Witness ==
    /\ page \in {"images", "user_profile"} /\ ~Falsy(token)
    /\ Ids(ListContainer(dom, page)) = <<2, 1>>
    /\ step # <<>> /\ step[1].e = "resp" /\ step[1].a = "getTags"
    /\ pending = {}

\* the requests in flight that the top-level statements of the page started
\* (n = 0), and those a user event started (n = the number of the event)
TopLevelReqs == {r \in pending : r.n = 0}

\* C16 as claimed: a page (that passed its guard) never has more than one
\* HTTP request in flight.
C16_OneRequestInFlight ==
    ~Falsy(token) => Cardinality(pending) <= 1

\* C16 as amended: every invocation of an async function has at most one
\* request in flight: the top-level statements of a photo page start two
\* invocations (photo and comments), those of the other pages at most one,
\* and every user event starts one more.
C16_OneRequestPerInvocation ==
    /\ Cardinality(TopLevelReqs) <= (IF page \in ImagePages THEN 2 ELSE 1)
    /\ \A r1, r2 \in TopLevelReqs : r1.task = r2.task => r1 = r2
    /\ \A r1, r2 \in pending \ TopLevelReqs : r1.n = r2.n => r1 = r2
    /\ \A r \in pending \ TopLevelReqs : r.n \in 1..events
    /\ Cardinality(pending) <= 2 + events

\* C16 witness: the photo page has the photo request and the comments request
\* in flight together.
C16_Witness ==
    /\ page = "image" /\ ~Falsy(token)
    /\ \E r1, r2 \in pending : r1.acc = "getImage" /\ r2.acc = "getComments"

----------------------------------------------------------------------------
(* Rendering across tasks *)

PhotoRenderers == {"getImages", "getUserImages", "getImage"}

\* the container the photo renderer of a page writes to
PhotoContainer(d, p) == IF p \in ImagePages THEN d.image ELSE ListContainer(d, p)

\* the task resumes a photo renderer at the lookup after which it appends
\* the card: getTags, or getUserById on the older pages
AppendsCard(stp, p) ==
    /\ stp # <<>> /\ stp[1].e = "resp"
    /\ \/ stp[1].a = "getTags"
       \/ stp[1].a = "getUserById" /\ p \in {"images_old", "image_old"}

\* the task starts with the response of status 200 to accessor acc
Answers200(stp, acc) ==
    stp # <<>> /\ stp[1].e = "resp" /\ stp[1].a = acc /\ stp[1].n = 200

----------------------------------------------------------------------------
(* Statuses other than 200 and 401 *)

\* the GET accessors whose caller is a renderer or a handler awaiting them,
\* and the renderers that own their request
NestedAccessors == {"getUserById", "getTags", "getCurrentUser"}
OwnRenderers == {"getImages", "getImage", "getComments", "getUserImages", "getInfoUser"}

\* C18 as claimed: the task in which a GET accessor or renderer (of a page
\* that passed its guard, in a session) is answered 404 changes no container, requests no
\* navigation, and the accessor returns no data.
C18_OtherStatusIgnored ==
    [][ (~Falsy(token') /\ ~Falsy(localStorage'.accessToken)
           /\ \E i \in RespAt(step', 404) : step'[i].a \in NestedAccessors \cup OwnRenderers)
          => /\ dom' = dom
             /\ NavAt(step') = {}
             /\ \A j \in DOMAIN step' : ~(step'[j].e = "ret" /\ step'[j].n = 1) ]_vars

\* C18 as amended: a renderer whose own request is answered 404 changes no
\* container; an accessor awaited by a renderer or handler that is answered
\* 404 writes no container and returns undefined, after which its caller
\* goes on (the comment handler throws on the undefined user); in both cases
\* no navigation is requested and no data is returned.
C18_AccessorIgnoresOtherStatus ==
    [][ \A i \in RespAt(step', 404) :
          /\ step'[i].a \in NestedAccessors \cup OwnRenderers
                => /\ NavAt(step') = {}
                   /\ \A j \in DOMAIN step' : ~(step'[j].e = "ret" /\ step'[j].n = 1)
          /\ step'[i].a \in OwnRenderers => (dom' = dom /\ DomAt(step') = {})
          /\ step'[i].a \in NestedAccessors
                => /\ i + 1 \in DOMAIN step' /\ step'[i + 1] = Ret(step'[i].a, 0)
                   /\ step'[i].a = "getCurrentUser"
                         => (step'[i + 2] = Throw("submit") /\ dom' = dom) ]_vars

\* C18 witness: on the images page a tag lookup was answered 404 and the
\* renderer went on to append the card, without tags.
C18_Witness ==
    /\ page = "images" /\ ~Falsy(token) /\ step # <<>>
    /\ step[1] = Resp("getTags", 404)
    /\ dom.images # <<>> /\ dom.images[Len(dom.images)].tags = <<>>

----------------------------------------------------------------------------
(* Form handlers *)

\* the requests the form handlers issue
FormRequests == {"login", "signup", "upload", "getCurrentUser", "postComment"}

\* C19 as claimed: a form handler (on a photo page: one that passed its
\* guard) issues its one request in the task of the submit event, and none
\* in the task that handles a response to it.
C19_OneRequestPerSubmit ==
    /\ (step # <<>> /\ step[1].e = "submit") => Cardinality(FetchAt(step)) = 1
    /\ (step # <<>> /\ step[1].e = "resp" /\ step[1].a \in FormRequests
           /\ ~(page \in ImagePages /\ Falsy(token)))
          => FetchAt(step) = {}

\* C19 as amended: the login, signup and upload handlers issue one request
\* per submit event and none when it is answered; the comment handler
\* issues the current-user lookup at the submit event, then, when the lookup
\* returned a user, the POST and nothing else, and no request when the
\* lookup returned nothing or when the POST is answered.
C19_OneRequestPerSubmitButComment ==
    /\ (step # <<>> /\ step[1].e = "submit") => Cardinality(FetchAt(step)) = 1
    /\ (step # <<>> /\ step[1].e = "resp"
           /\ step[1].a \in FormRequests \ {"getCurrentUser"})
          => FetchAt(step) = {}
    /\ (step # <<>> /\ step[1].e = "resp" /\ step[1].a = "getCurrentUser")
          => IF \E j \in DOMAIN step : step[j] = Ret("getCurrentUser", 1)
             THEN /\ Cardinality(FetchAt(step)) = 1
                  /\ \A i \in FetchAt(step) : step[i].a = "postComment"
             ELSE FetchAt(step) = {}

\* C19 witness: the comment handler, resumed by the current-user lookup, has
\* issued the POST: the second request of one submit event.
C19_Witness ==
    /\ page \in ImagePages /\ ~Falsy(token) /\ step # <<>>
    /\ step[1] = Resp("getCurrentUser", 200)
    /\ \E i \in FetchAt(step) : step[i].a = "postComment"

----------------------------------------------------------------------------
(* Rating *)

\* C20: when a rating submission (of a page that passed its guard) is
\* answered 400 or 403, the body's detail is written to the error element
\* and no navigation is requested.
C20_RatingRejectionShown ==
    ~Falsy(token) =>
        \A i \in RespAt(step, 400) \cup RespAt(step, 403) :
            step[i].a = "rating"
                => /\ \E j \in DomAt(step) : j > i /\ step[j].a = "error"
                   /\ dom.error \in Details
                   /\ NavAt(step) = {}

----------------------------------------------------------------------------
(* Message banner *)

BannerPages == {"login", "signup", "signup_old", "images", "images_old"}

\* the number of newline characters of a message
Newlines(msg) == Cardinality({i \in DOMAIN msg : msg[i] = "\n"})

\* the lines of a banner put together again, a newline between two lines
RECURSIVE Join(_)
Join(lines) ==
    IF Len(lines) = 0 THEN <<>>
    ELSE IF Len(lines) = 1 THEN lines[1]
    ELSE lines[1] \o <<"\n">> \o Join(Tail(lines))

\* C21: every page that renders the message parameter (a guarded one having
\* passed its guard) shows, for a message with k newlines, k+1 paragraphs:
\* the lines of the message, in order, none holding a newline.
C21_ParagraphPerLine ==
    (IsLoad(step) /\ page \in BannerPages /\ step[1].m # <<>>
        /\ (page \in GuardedPages => ~Falsy(token)))
      => /\ Len(dom.banner) = Newlines(step[1].m) + 1
         /\ Join(dom.banner) = step[1].m
         /\ \A i \in DOMAIN dom.banner : Newlines(dom.banner[i]) = 0

----------------------------------------------------------------------------
(* Page life cycle *)

\* Loading: a request started by the top-level statements, or a lookup of a
\* renderer they started, is still in flight
Loading == TopLevelReqs # {}

\* Redirected by the session guard
GuardRedirected == page \in GuardedPages /\ Falsy(token)

\* C22: a form submission is processed (in a session: an access token is
\* stored) only on a page that is neither Loading nor Redirected.
C22_SubmitOnlyWhenRendered ==
    [][ (step' # <<>> /\ step'[1].e = "submit" /\ ~Falsy(localStorage.accessToken))
          => (~Loading /\ ~GuardRedirected) ]_vars

\* the task starts with the response, of status st, to the request a
\* renderer of a guarded page issued for itself
OwnAnswer(stp, st) ==
    stp # <<>> /\ stp[1].e = "resp" /\ stp[1].a \in OwnRenderers /\ stp[1].n = st

\* C23 as claimed: when the renderer of a guarded page with a stored token
\* has its own request answered, whatever the status, it renders (writes
\* its container) or requests the login page.
C23_LoadLeavesLoading ==
    (page \in GuardedPages /\ ~Falsy(token) /\ ~Falsy(localStorage.accessToken)
        /\ \E st \in Statuses : OwnAnswer(step, st))
      => (DomAt(step) # {} \/ LoginNavAt(step) # {})

\* the requests of photo renderers that the task has consumed
Consumed(pnd, pndNext) ==
    {r \in pnd \ pndNext : r.task \in PhotoRenderers /\ r.acc \in Lookups}

\* C23 as amended: on a guarded page, a renderer whose own request is
\* answered 200 writes its container, and a list renderer then has every
\* photo of the list either rendered or waiting behind the lookup in
\* flight; every lookup answered, whatever the status, appends a card or
\* starts the photo's next lookup; a renderer answered 401 requests the
\* login page (the older comment renderer excepted); a renderer answered
\* another status neither renders nor redirects.
C23_LoadSettles ==
    [][ (page' \in GuardedPages /\ page' = page /\ ~IsLoad(step')) =>
          /\ OwnAnswer(step', 200)
                => /\ DomAt(step') # {}
                   /\ page' \in ListPages /\ step'[1].a \in ListRenderers
                         => Len(ListContainer(dom', page')) + Len(RestOf(pending'))
                               = Len(step'[1].m)
                   /\ (page' = "image" /\ step'[1].a = "getImage")
                         => \E r \in pending' : r.task = "getImage" /\ r.acc \in Lookups
          /\ (OwnAnswer(step', 401)
                 /\ ~(page' = "image_old" /\ step'[1].a = "getComments"))
                => LoginNavAt(step') # {}
          /\ OwnAnswer(step', 404) => (DomAt(step') = {} /\ NavAt(step') = {})
          /\ \A r \in Consumed(pending, pending') :
                \/ Len(PhotoContainer(dom', page')) > Len(PhotoContainer(dom, page))
                \/ /\ r.acc = "getUserById"
                   /\ \E r2 \in pending' :
                         r2.task = r.task /\ r2.rest = r.rest /\ r2.acc = "getTags" ]_vars

\* C23 witness: the images page, loaded with a token, has rendered a list of
\* two photos and is at rest.
C23_Witness ==
    /\ page = "images" /\ ~Falsy(token) /\ ~got401 /\ pending = {}
    /\ Len(dom.images) = 2 /\ step # <<>> /\ step[1].a = "getTags"

(* Missing optional fields *)

\* the texts a template literal or a string conversion gives a missing value
Stringified == {"undefined", "null"}

\* C24: on a page loaded with a token, in a session, every card a renderer has appended
\* shows a missing author and a missing rating as blank text, never as the
\* stringified missing value.
C24_MissingFieldsBlank ==
    (~Falsy(token) /\ ~Falsy(localStorage.accessToken)) =>
        \A c \in AllCards : c.author \notin Stringified /\ c.label \notin Stringified

(* Local storage frame *)

ClearAt(stp) == {i \in DOMAIN stp : stp[i].e = "clear"}
LoginAnswered200(stp) ==
    stp # <<>> /\ stp[1].e = "resp" /\ stp[1].a = "login" /\ stp[1].n = 200
LogoutCleared(stp) ==
    stp # <<>> /\ stp[1].e = "resp" /\ stp[1].a = "logout" /\ ClearAt(stp) # {}

\* C25: local storage changes only in the task of the login handler that
\* received 200, which stores the two tokens of the body, and in the task of
\* the logout handler that clears it, after which neither token is stored;
\* no other task calls setItem or clear.
C25_StorageFrame ==
    [][ /\ localStorage' # localStorage
              => (LoginAnswered200(step') \/ LogoutCleared(step'))
        /\ (SetAt(step', "accessToken") \cup SetAt(step', "refreshToken")) # {}
              => LoginAnswered200(step')
        /\ ClearAt(step') # {} => LogoutCleared(step')
        /\ LoginAnswered200(step')
              => localStorage' = [accessToken |-> step'[1].m[1],
                                  refreshToken |-> step'[1].m[2]]
        /\ LogoutCleared(step')
              => (localStorage'.accessToken = Null /\ localStorage'.refreshToken = Null)
      ]_vars

\* C25 witness: a logout started with both tokens stored has cleared local
\* storage.
C25_Witness ==
    /\ page = "logout_host" /\ LogoutCleared(step) /\ pending = {}
    /\ localStorage.accessToken = Null /\ localStorage.refreshToken = Null
    /\ \E i \in DOMAIN step : step[i].e = "nav" /\ step[i].a = LogoutUrl

(* Signup outcomes *)

ThrowAt(stp) == {i \in DOMAIN stp : stp[i].e = "throw"}

\* C26: the signup handler that received 201 with the new user in the body
\* only requests the login page:
\* it writes nothing to the message element and raises no error.
C26_SignupCreatedOnlyNavigates ==
    (page = "signup" /\ step # <<>> /\ step[1].e = "resp"
        /\ step[1].a = "signup" /\ step[1].n = 201 /\ step[1].s = "user")
      => (NavAt(step) # {} /\ DomAt(step) = {} /\ ThrowAt(step) = {})

(* Comment handler without a current user *)

\* C27: in a session, when the current-user lookup of the comment handler is
\* answered with a status other than 200, the handler issues no POST, shows
\* no success message and ends without raising an error.
C27_NoUserNoPost ==
    (page \in ImagePages /\ ~Falsy(token) /\ ~Falsy(localStorage.accessToken)
        /\ step # <<>> /\ step[1].e = "resp" /\ step[1].a = "getCurrentUser"
        /\ step[1].n # 200)
      => /\ \A i \in FetchAt(step) : step[i].a # "postComment"
         /\ \A i \in DomAt(step) : step[i].a # "message"
         /\ ThrowAt(step) = {}

(* Comment list *)

IsCommentNode(node) == node.kind = "comment"
IsPlaceholderNode(node) == node.kind = "placeholder"
NodeTexts(nodes) == [i \in DOMAIN nodes |-> nodes[i].text]

\* C28: in a session, after getComments has received 200 with a list, the
\* comments container holds the comments of the list, in its order, and one
\* 'No comments yet' placeholder exactly when the list is empty.
C28_CommentsAsListed ==
    (page \in ImagePages /\ ~Falsy(token) /\ ~Falsy(localStorage.accessToken)
        /\ step # <<>> /\ step[1].e = "resp" /\ step[1].a = "getComments"
        /\ step[1].n = 200)
      => /\ NodeTexts(SelectSeq(dom.comments, IsCommentNode)) = step[1].m
         /\ Len(SelectSeq(dom.comments, IsPlaceholderNode))
               = (IF step[1].m = <<>> THEN 1 ELSE 0)
         /\ \A i \in DOMAIN dom.comments :
               IsPlaceholderNode(dom.comments[i]) => dom.comments[i].text = "No comments yet"

(* Photo renderer and comment renderer *)

PhotoAccessors == {"getImage", "getUserById", "getTags"}
CommentFormAccessors == {"getCurrentUser", "postComment"}
Answered(stp, accs) == stp # <<>> /\ stp[1].e = "resp" /\ stp[1].a \in accs
WritesTo(stp, c) == {i \in DomAt(stp) : stp[i].a = c}

\* C29: on a photo page, a task of the photo renderer (resumed by the photo,
\* author or tag response) leaves the comments container as it was, a task
\* of the comment renderer leaves the image container as it was, and a task
\* of the comment form writes to neither.
C29_RenderersDisjoint ==
    [][ (page \in ImagePages /\ page' = page) =>
          /\ Answered(step', PhotoAccessors)
                => (dom'.comments = dom.comments /\ WritesTo(step', "comments") = {})
          /\ Answered(step', {"getComments"})
                => (dom'.image = dom.image /\ WritesTo(step', "image") = {})
          /\ Answered(step', CommentFormAccessors)
                => /\ dom'.comments = dom.comments /\ dom'.image = dom.image
                   /\ WritesTo(step', "comments") \cup WritesTo(step', "image") = {}
      ]_vars

\* C29 witness: on the photo page the comments were answered after the card
\* was appended, and both containers hold their renderer's output.
C29_Witness ==
    /\ page = "image" /\ ~Falsy(token) /\ pending = {}
    /\ Answered(step, {"getComments"}) /\ step[1].n = 200
    /\ Len(dom.image) = 1 /\ Len(dom.comments) = 4

(* Repeated comment submissions *)

PostsInFlight == {r \in pending : r.acc = "postComment"}

\* C30: in a session, the comment form never has more than one
\* POST /api/comments/ request in flight.
C30_OnePostInFlight ==
    (page \in ImagePages /\ ~Falsy(token) /\ ~Falsy(localStorage.accessToken))
      => Cardinality(PostsInFlight) <= 1

----------------------------------------------------------------------------

Init ==
    /\ localStorage \in Storages
    /\ page = "none"
    /\ token = Null
    /\ photo_id = 0
    /\ pending = {}
    /\ dom = FreshDom
    /\ step = <<>>
    /\ events = 0
    /\ got401 = FALSE

Next ==
    \/ LoadImages
    \/ getImages
    \/ getUserById
    \/ getTags
    \/ LoadImagesOld
    \/ getImagesOld
    \/ getUserByIdOld
    \/ LoadImage
    \/ getImage
    \/ getUserByIdImage
    \/ getTagsImage
    \/ getComments
    \/ SubmitComment
    \/ getCurrentUser
    \/ postComment
    \/ LoadImageOld
    \/ getImageOld
    \/ getUserByIdImageOld
    \/ getCommentsOld
    \/ SubmitCommentOld
    \/ getCurrentUserOld
    \/ postCommentOld
    \/ LoadAddImage
    \/ SubmitUpload
    \/ upload
    \/ LoadUserProfile
    \/ getInfoUser
    \/ getUserImages
    \/ getTagsProfile
    \/ LoadRating
    \/ press_rating
    \/ rating
    \/ LoadLogin
    \/ SubmitLogin
    \/ login
    \/ LoadSignup
    \/ SubmitSignup
    \/ signup
    \/ LoadSignupOld
    \/ SubmitSignupOld
    \/ signupOld
    \/ LoadLogout
    \/ ClickLogout
    \/ logout

Spec == Init /\ [][Next]_vars

====
